---- MODULE Spec2Model ----
(***************************************************************************)
(* Model of the alert lifecycle of AgentLens (src/agents/alert_agent.py)   *)
(* as it is driven by src/backend/app.py.                                  *)
(*                                                                         *)
(* Alert objects live in `heap`; a handle is the index of the object in    *)
(* the heap (Python object identity).  The queue, the batches of running   *)
(* send_alerts_to_frontend calls and sent_alerts hold handles, as the      *)
(* Python containers hold references to the same Alert objects.            *)
(*                                                                         *)
(* app.py runs every handler as a coroutine of one event loop, so a call   *)
(* of send_alerts_to_frontend is interleaved with other calls only where   *)
(* it awaits: one action of a delivery call runs from one await to the     *)
(* next.  create_alert and acknowledge_alert never await.  Callers of      *)
(* create_alert on several threads are modelled in SpecCreate, where the   *)
(* locked section and the put are separate steps.                          *)
(*                                                                         *)
(* The second half of the module models analyze_log of the three security  *)
(* analysis agents (src/agents/analysis_agent.py, analysis_agent_simple.py *)
(* and analysis_agent_enhanced.py).  A log message is what the detectors   *)
(* see of it: how often each pattern matches it.                           *)
(*                                                                         *)
(* The last part follows callers on several threads statement by           *)
(* statement (analyze_log storing into the issue buffer, the loop body of  *)
(* send_alerts_to_frontend around self._lock) and models ingest_log of     *)
(* src/agents/log_agent.py.                                                *)
(***************************************************************************)
EXTENDS Integers, Sequences, FiniteSets, TLC

(* ---------------------------------------------------------------- bounds *)
MaxAlerts == 3          \* create_alert calls in one behaviour
MaxNow == 1             \* clock seconds that pass in one behaviour

Creators == {"c1", "c2"}        \* threads / tasks calling create_alert
Deliverers == {"d1", "d2"}      \* overlapping send_alerts_to_frontend calls

(* ---------------------------------------------------- program constants *)
DefaultMaxRetries == 3          \* Alert.max_retries
HistoryCap == 1000              \* "Keep only last 1000 sent alerts"
SecondsPerMinute == 60          \* cooldown_minutes is in minutes, clock in s

PENDING == "pending"
SENT == "sent"
FAILED == "failed"
ACKNOWLEDGED == "acknowledged"
AlertStatus == {PENDING, SENT, FAILED, ACKNOWLEDGED}

\* issue_type values process_security_issues hands to create_alert (a subset
\* of SecurityIssueType that has one rule with and one without a cooldown)
IssueTypes == {"pii_leakage", "prompt_injection"}
\* no lifecycle operation reads metadata['issue_type']: one value there
LifecycleTypes == {"prompt_injection"}

\* AlertSeverity, and the severity of the alerts of the lifecycle (no
\* lifecycle operation reads it)
AlertSeverity == {"info", "warning", "error", "critical"}
LifecycleSeverities == {"critical"}

\* _initialize_default_rules: rule_id -> cooldown_minutes
alert_rules ==
    [r \in {"security_threat", "pii_leakage", "prompt_injection",
            "high_error_rate", "system_overload"} |->
        CASE r = "security_threat"  -> 0
          [] r = "pii_leakage"      -> 10
          [] r = "prompt_injection" -> 0
          [] r = "high_error_rate"  -> 15
          [] r = "system_overload"  -> 5]

NoId == <<0, 0>>                \* no alert id (ids start at counter 1)

VARIABLES
    now,            \* datetime.now() in whole seconds
    alert_counter,  \* self._alert_counter
    heap,           \* the Alert objects, in order of construction
    outcomes,       \* per Alert object: how its delivery attempts ended (history)
    alert_queue,    \* self.alert_queue (FIFO of handles)
    sent_alerts,    \* self.sent_alerts (list of handles)
    creator,        \* per create_alert caller: pc, alert_id, issue_type, severity
    deliver,        \* per send_alerts_to_frontend call: pc and locals
    agent,          \* which SecurityAnalysisAgent class was constructed
    detected_issues,\* self.detected_issues / self.issues_detected
    request,        \* the arguments of the last analysis call (history)
    returned,       \* what the last analysis call returned or raised
    calls,          \* analysis calls made so far
    lock,           \* AlertAgent._lock: the thread that holds it, or "free"
    analyzer,       \* per thread in analyze_log: pc and locals
    log_queue,      \* LogIngestionAgent.log_queue
    processed_logs, \* LogIngestionAgent.processed_logs
    ingester,       \* per ingest_log caller: pc and locals
    ingested        \* the ingest_log calls that returned: log and log_id (history)

alertVars == <<now, alert_counter, heap, outcomes, alert_queue, sent_alerts,
               creator, deliver>>
analysisVars == <<agent, detected_issues, request, returned, calls>>
threadVars == <<lock, analyzer>>
logVars == <<log_queue, processed_logs, ingester, ingested>>
vars == <<now, alert_counter, heap, outcomes, alert_queue, sent_alerts,
          creator, deliver, agent, detected_issues, request, returned, calls,
          lock, analyzer, log_queue, processed_logs, ingester, ingested>>

Handles == 1..Len(heap)

SeqToSet(s) == {s[i] : i \in 1..Len(s)}

(* ------------------------------------------------------------- helpers *)

\* f"alert_{self._alert_counter}_{int(datetime.now().timestamp())}"
MakeAlertId(counter, t) == <<counter, t>>

\* self._alert_counter += 1
NextCounterStale(c) == IF c = 0 THEN 1 ELSE c     \* mutant: the increment is lost
NextCounter(c) == c + 1

\* Alert(alert_id=..., severity=severity, timestamp=now,
\* metadata={issue_type...}) with the dataclass defaults status = PENDING,
\* retry_count = 0, max_retries = 3
NewAlert(id, type, sev, t) ==
    [alert_id |-> id, issue_type |-> type, severity |-> sev, timestamp |-> t,
     status |-> PENDING, retry_count |-> 0, max_retries |-> DefaultMaxRetries]

\* mutant: the history keeps its first 1000 entries
AppendCappedOldest(h, o) ==
    LET h2 == Append(h, o)
    IN  IF Len(h2) > HistoryCap THEN SubSeq(h2, 1, HistoryCap) ELSE h2
\* self.sent_alerts.append(alert); keep only the last 1000
AppendCapped(h, o) ==
    LET h2 == Append(h, o)
    IN  IF Len(h2) > HistoryCap
        THEN SubSeq(h2, Len(h2) - HistoryCap + 1, Len(h2))
        ELSE h2

IdleCreator == [pc |-> "idle", alert_id |-> NoId, issue_type |-> "pii_leakage",
                severity |-> "warning"]
\* alerts_to_send holds the part of the list the for loop is not done with
\* (the alert it is at first); total_processed is the length of the whole list
IdleDeliver == [pc |-> "idle", alerts_to_send |-> <<>>, total_processed |-> 0,
                sent_count |-> 0, failed_count |-> 0]

(* ----------------------------------------------------------------- Init *)
\* no analysis call was made yet
NoRequest == [op |-> "none"]
NoReturn == [raised |-> FALSE, issues |-> <<>>]

\* AlertAgent.__init__
InitAlerts ==
    /\ now = 0
    /\ alert_counter = 0
    /\ heap = <<>>
    /\ outcomes = <<>>
    /\ alert_queue = <<>>
    /\ sent_alerts = <<>>
    /\ creator = [c \in Creators |-> IdleCreator]
    /\ deliver = [d \in Deliverers |-> IdleDeliver]

\* SecurityAnalysisAgent.__init__ of the class app.py imports
InitAnalysis ==
    /\ agent = "simple"
    /\ detected_issues = <<>>
    /\ request = NoRequest
    /\ returned = NoReturn
    /\ calls = 0

\* threads that call analyze_log, and callers of ingest_log
Analyzers == {"t1", "t2"}
Ingesters == {"i1", "i2"}

\* the locals of an analyze_log call: its list `issues`, the index of the
\* issue the store loop is at, and the slice it has read and not yet assigned
IdleAnalyzer == [pc |-> "idle", issues |-> <<>>, i |-> 0, kept |-> <<>>]
\* the locals of an ingest_log call: its log_entry
IdleIngester == [pc |-> "idle", log_entry |-> 0]

\* no thread holds AlertAgent._lock, none is in analyze_log
InitThreads ==
    /\ lock = "free"
    /\ analyzer = [t \in Analyzers |-> IdleAnalyzer]

\* LogIngestionAgent.__init__
InitLog ==
    /\ log_queue = <<>>
    /\ processed_logs = <<>>
    /\ ingester = [i \in Ingesters |-> IdleIngester]
    /\ ingested = <<>>

Init == InitAlerts /\ InitAnalysis /\ InitThreads /\ InitLog

(* ----------------------------------------------------------------- lock *)
\* The positions at which a suspended send_alerts_to_frontend call holds
\* self._lock: none, the await of the delivery is outside every `with
\* self._lock` block of the call.
LockedPcsAwait == {"await"}                                           \* mutant
LockedPcs == {}

\* `with self._lock` can be entered: no suspended call holds the lock
LockFree == \A d \in Deliverers : deliver[d].pc \notin LockedPcs

\* the alerts that were made before the clock of the behaviour started
Started == Cardinality({o \in Handles : heap[o].timestamp < 0})

(* ---------------------------------------------------------------- clock *)
Tick ==
    /\ now < MaxNow
    /\ now' = now + 1
    /\ UNCHANGED analysisVars
    /\ UNCHANGED <<threadVars, logVars>>
    /\ UNCHANGED <<alert_counter, heap, outcomes, alert_queue, sent_alerts,
                   creator, deliver>>

(* --------------------------------------------------------- create_alert *)
\* with self._lock: counter += 1; alert_id = f"alert_{counter}_{ts}"
CreateAlertId(c, type, sev) ==
    /\ creator[c].pc = "idle"
    /\ LockFree
    /\ alert_counter < Started + MaxAlerts
    /\ alert_counter' = NextCounter(alert_counter)
    /\ creator' = [creator EXCEPT ![c] =
                      [pc |-> "made_id",
                       alert_id |-> MakeAlertId(alert_counter', now),
                       issue_type |-> type, severity |-> sev]]
    /\ UNCHANGED analysisVars
    /\ UNCHANGED <<threadVars, logVars>>
    /\ UNCHANGED <<now, heap, outcomes, alert_queue, sent_alerts, deliver>>

\* alert = Alert(...); self.alert_queue.put(alert); return alert_id
CreateAlertPut(c) ==
    /\ creator[c].pc = "made_id"
    /\ heap' = Append(heap, NewAlert(creator[c].alert_id, creator[c].issue_type,
                                    creator[c].severity, now))
    /\ outcomes' = Append(outcomes, <<>>)
    /\ alert_queue' = Append(alert_queue, Len(heap) + 1)
    /\ creator' = [creator EXCEPT ![c] = IdleCreator]
    /\ UNCHANGED analysisVars
    /\ UNCHANGED <<threadVars, logVars>>
    /\ UNCHANGED <<now, alert_counter, sent_alerts, deliver>>

\* create_alert called from a coroutine (process_security_issues): the whole
\* call runs without interruption
CreateAlert(type, sev) ==
    /\ LockFree
    /\ alert_counter < Started + MaxAlerts
    /\ alert_counter' = NextCounter(alert_counter)
    /\ heap' = Append(heap, NewAlert(MakeAlertId(alert_counter', now), type, sev, now))
    /\ outcomes' = Append(outcomes, <<>>)
    /\ alert_queue' = Append(alert_queue, Len(heap) + 1)
    /\ UNCHANGED analysisVars
    /\ UNCHANGED <<threadVars, logVars>>
    /\ UNCHANGED <<now, sent_alerts, creator, deliver>>

(* ---------------------------------------------- send_alerts_to_frontend *)
\* the alert the for loop of call d is at
Current(d) == Head(deliver[d].alerts_to_send)

\* mutant: the for loop stays at the alert it is at
AdvanceRepeats(loc) == [loc EXCEPT !.pc = "await"]
\* the locals of call d once the for loop is done with alert i: either the
\* await of the next alert, or the return statement
Advance(loc) ==
    IF Len(loc.alerts_to_send) > 1
    THEN [loc EXCEPT !.pc = "await", !.alerts_to_send = Tail(@)]
    ELSE IdleDeliver

\* return {'status': 'success', 'sent_count': ..., 'failed_count': ...,
\*         'total_processed': len(alerts_to_send)}
Report(loc) ==
    [status |-> "success", sent_count |-> loc.sent_count,
     failed_count |-> loc.failed_count,
     total_processed |-> loc.total_processed]

\* Calls are told apart only by the slot the model keeps their locals in: a
\* new call takes the first slot that holds no suspended call.
Before(e, d) == e = "d1" /\ d = "d2"

DrainedPeeked(queue) == queue                                         \* mutant
\* the queue after `while not self.alert_queue.empty(): get_nowait()`
Drained(queue) == <<>>

\* The call starts: it drains the queue into alerts_to_send and awaits the
\* delivery of the first alert (with nothing queued it returns at once).
DeliverBegin(d) ==
    /\ deliver[d].pc # "await"
    /\ \A e \in Deliverers : Before(e, d) => deliver[e].pc = "await"
    /\ alert_queue' = Drained(alert_queue)
    /\ deliver' = [deliver EXCEPT ![d] =
                      IF alert_queue = <<>>
                      THEN IdleDeliver
                      ELSE [IdleDeliver EXCEPT !.pc = "await",
                                               !.alerts_to_send = alert_queue,
                                               !.total_processed = Len(alert_queue)]]
    /\ UNCHANGED analysisVars
    /\ UNCHANGED <<threadVars, logVars>>
    /\ UNCHANGED <<now, alert_counter, heap, outcomes, sent_alerts, creator>>

MarkSentForgets(a) == a                       \* mutant: the status is not written
MarkSentResets(a) == [a EXCEPT !.status = SENT, !.retry_count = 0]   \* mutant
\* alert.status = AlertStatus.SENT
MarkSent(a) == [a EXCEPT !.status = SENT]

\* the await returned: mark SENT, count it, append to the capped history
SendOk(d) ==
    /\ deliver[d].pc = "await"
    /\ heap' = [heap EXCEPT ![Current(d)] = MarkSent(@)]
    /\ sent_alerts' = AppendCapped(sent_alerts, Current(d))
    /\ deliver' = [deliver EXCEPT ![d] =
                      Advance([deliver[d] EXCEPT !.sent_count = @ + 1])]
    /\ outcomes' = [outcomes EXCEPT ![Current(d)] = Append(@, "ok")]
    /\ UNCHANGED analysisVars
    /\ UNCHANGED <<threadVars, logVars>>
    /\ UNCHANGED <<now, alert_counter, alert_queue, creator>>

RequeueOffByOne(a) == a.retry_count <= a.max_retries                  \* mutant
\* if alert.retry_count < alert.max_retries: put back in queue for retry
Requeue(a) == a.retry_count < a.max_retries

AfterFailureMarksFailed(a) ==                                         \* mutant
    [a EXCEPT !.retry_count = @ + 1, !.status = FAILED]
\* except Exception: alert.retry_count += 1, then FAILED unless it is requeued
AfterFailure(a) ==
    LET b == [a EXCEPT !.retry_count = @ + 1]
    IN  IF Requeue(b) THEN b ELSE [b EXCEPT !.status = FAILED]

AfterFailureAborts(loc, requeued) == [IdleDeliver EXCEPT !.pc = "raised"]   \* mutant
\* what the except branch leaves of the locals of the call
AfterFailureLocals(loc, requeued) ==
    Advance([loc EXCEPT !.failed_count = IF requeued THEN @ ELSE @ + 1])

PutDropped(queue, o) == queue                 \* mutant: the retry is not queued
PutFirst(queue, o) == <<o>> \o queue                                 \* mutant
\* self.alert_queue.put(alert) of the retry: queue.Queue is first in, first out
Put(queue, o) == Append(queue, o)

\* the await raised an Exception: the except branch, then the next alert
SendFail(d) ==
    /\ deliver[d].pc = "await"
    /\ heap' = [heap EXCEPT ![Current(d)] = AfterFailure(@)]
    /\ alert_queue' = IF Requeue(heap'[Current(d)])
                      THEN Put(alert_queue, Current(d))
                      ELSE alert_queue
    /\ deliver' = [deliver EXCEPT ![d] =
                      AfterFailureLocals(deliver[d], Requeue(heap'[Current(d)]))]
    /\ outcomes' = [outcomes EXCEPT ![Current(d)] = Append(@, "fail")]
    /\ UNCHANGED analysisVars
    /\ UNCHANGED <<threadVars, logVars>>
    /\ UNCHANGED <<now, alert_counter, sent_alerts, creator>>

\* what a cancellation leaves of the call: asyncio.CancelledError is a
\* BaseException, `except Exception` does not catch it (lines 240, 258), and
\* it leaves send_alerts_to_frontend, whose locals are dropped
AfterCancel(loc) == [IdleDeliver EXCEPT !.pc = "raised"]

\* the await was cancelled (the task is cancelled, or a caller's timeout)
SendCancelled(d) ==
    /\ deliver[d].pc = "await"
    /\ deliver' = [deliver EXCEPT ![d] = AfterCancel(deliver[d])]
    /\ outcomes' = [outcomes EXCEPT ![Current(d)] = Append(@, "cancel")]
    /\ UNCHANGED analysisVars
    /\ UNCHANGED <<threadVars, logVars>>
    /\ UNCHANGED <<now, alert_counter, heap, alert_queue, sent_alerts, creator>>

(* ---------------------------------------------------- acknowledge_alert *)
\* for alert in self.sent_alerts: if alert.alert_id == alert_id: ...
Matches(id, hist, hp) == {k \in 1..Len(hist) : hp[hist[k]].alert_id = id}
FirstMatch(id, hist, hp) ==
    CHOOSE k \in Matches(id, hist, hp) : \A j \in Matches(id, hist, hp) : k <= j

\* mutant: looks the id up among all Alert objects, not in sent_alerts
AcknowledgeAny(id, hist, hp) ==
    IF \E o \in DOMAIN hp : hp[o].alert_id = id
    THEN [heap |-> [o \in DOMAIN hp |->
                       IF hp[o].alert_id = id
                       THEN [hp[o] EXCEPT !.status = ACKNOWLEDGED] ELSE hp[o]],
          status |-> "success"]
    ELSE [heap |-> hp, status |-> "not_found"]
\* mutant: refuses an alert that is not SENT any more
AcknowledgeOnce(id, hist, hp) ==
    IF \E k \in Matches(id, hist, hp) : hp[hist[k]].status = SENT
    THEN [heap |-> [hp EXCEPT ![hist[FirstMatch(id, hist, hp)]].status = ACKNOWLEDGED],
          status |-> "success"]
    ELSE [heap |-> hp, status |-> "not_found"]
\* the effect of acknowledge_alert(id) on the Alert objects, and its result
Acknowledge(id, hist, hp) ==
    IF Matches(id, hist, hp) # {}
    THEN [heap |-> [hp EXCEPT ![hist[FirstMatch(id, hist, hp)]].status = ACKNOWLEDGED],
          status |-> "success"]
    ELSE [heap |-> hp, status |-> "not_found"]

\* the ids a caller may pass: every id handed out so far and one never made
KnownIds == {heap[o].alert_id : o \in Handles} \cup {NoId}

AcknowledgeAlert(id) ==
    /\ LockFree
    /\ heap' = Acknowledge(id, sent_alerts, heap).heap
    /\ UNCHANGED analysisVars
    /\ UNCHANGED <<threadVars, logVars>>
    /\ UNCHANGED <<now, alert_counter, outcomes, alert_queue, sent_alerts,
                   creator, deliver>>

(* ------------------------------------------------------- specifications *)
\* the alert lifecycle, as app.py schedules it
Next ==
    \/ \E type \in LifecycleTypes, sev \in LifecycleSeverities : CreateAlert(type, sev)
    \/ \E d \in Deliverers : DeliverBegin(d)
    \/ \E d \in Deliverers : SendOk(d)
    \/ \E d \in Deliverers : SendFail(d)
    \/ \E d \in Deliverers : SendCancelled(d)
    \/ \E id \in KnownIds : AcknowledgeAlert(id)

Spec == Init /\ [][Next]_vars

\* the lifecycle when every delivery attempt ends in success or failure
NextReturns ==
    \/ \E type \in LifecycleTypes, sev \in LifecycleSeverities : CreateAlert(type, sev)
    \/ \E d \in Deliverers : DeliverBegin(d)
    \/ \E d \in Deliverers : SendOk(d)
    \/ \E d \in Deliverers : SendFail(d)
    \/ \E id \in KnownIds : AcknowledgeAlert(id)

SpecReturns == Init /\ [][NextReturns]_vars

\* create_alert called from several threads while the clock runs
NextCreate ==
    \/ Tick
    \/ \E c \in Creators, type \in IssueTypes, sev \in LifecycleSeverities :
           CreateAlertId(c, type, sev)
    \/ \E c \in Creators : CreateAlertPut(c)

SpecCreate == Init /\ [][NextCreate]_vars

(* ================================================================ claims *)

\* the ids create_alert has handed out: those of the constructed alerts and
\* those held by callers between the locked section and the put
HeldIds == {creator[c].alert_id : c \in {x \in Creators : creator[x].pc = "made_id"}}
IssuedIds == {heap[o].alert_id : o \in Handles} \cup HeldIds

\* C1: two issues of the same category, the second submitted less than the
\* rule's cooldown after the first created an alert, give exactly one alert:
\* no two alerts of one category are created less than the cooldown of the
\* rule of that category apart.
C1_CooldownSuppresses ==
    \A o1, o2 \in Handles :
        (o1 < o2 /\ heap[o1].issue_type = heap[o2].issue_type)
        => heap[o2].timestamp - heap[o1].timestamp
               >= alert_rules[heap[o1].issue_type] * SecondsPerMinute

\* where an Alert object is
InQueue(o) == \E k \in 1..Len(alert_queue) : alert_queue[k] = o
InHistory(o) == \E k \in 1..Len(sent_alerts) : sent_alerts[k] = o
Batched(o) ==
    \E d \in Deliverers :
        deliver[d].pc = "await" /\ o \in SeqToSet(deliver[d].alerts_to_send)
InFlight(o) == \E d \in Deliverers : deliver[d].pc = "await" /\ Current(d) = o
Position(o) == CHOOSE k \in 1..Len(sent_alerts) : sent_alerts[k] = o

\* the delivery attempts on an alert: those that ended and the one running
Count(seq, x) == Cardinality({k \in 1..Len(seq) : seq[k] = x})
Attempts(o) == Len(outcomes[o]) + IF InFlight(o) THEN 1 ELSE 0

\* C2: an alert is Failed exactly when its retry_count has reached
\* max_retries, which is after max_retries failed delivery attempts; a Failed
\* alert is in no queue and no batch, and nothing is attempted on it or
\* changed in it afterwards.
C2_FailedState ==
    \A o \in Handles :
        /\ heap[o].retry_count <= heap[o].max_retries
        /\ (heap[o].status = FAILED) <=> (heap[o].retry_count = heap[o].max_retries)
        /\ heap[o].status = FAILED
           => /\ Count(outcomes[o], "fail") = heap[o].max_retries
              /\ Attempts(o) = heap[o].max_retries
              /\ ~InQueue(o) /\ ~Batched(o)
C2_FailedStays ==
    \A o \in Handles :
        heap[o].status = FAILED
        => /\ heap'[o] = heap[o]
           /\ outcomes'[o] = outcomes[o]
           /\ ~InQueue(o)' /\ ~Batched(o)'
C2_FailedAfterMaxRetries == []C2_FailedState /\ [][C2_FailedStays]_vars

\* C2 witness: an alert whose three attempts all failed is Failed
C2_Witness ==
    \E o \in Handles :
        heap[o].status = FAILED /\ outcomes[o] = <<"fail", "fail", "fail">>

\* C3: an alert (max_retries = 3) whose first two delivery attempts fail and
\* whose third succeeds is appended to the history with status Sent and
\* retry_count = 2, and stays in the history with that retry_count.
FailFailOk == <<"fail", "fail", "ok">>
C3_State ==
    \A o \in Handles :
        outcomes[o] = FailFailOk
        => /\ InHistory(o)
           /\ heap[o].retry_count = 2
           /\ heap[o].status \in {SENT, ACKNOWLEDGED}
C3_Step ==
    \A o \in Handles :
        (outcomes[o] # FailFailOk /\ outcomes'[o] = FailFailOk)
        => /\ heap'[o].status = SENT
           /\ heap'[o].retry_count = 2
           /\ sent_alerts' = Append(sent_alerts, o)
C3_SentAfterTwoFailures == []C3_State /\ [][C3_Step]_vars

\* C3 witness: such an alert, Sent
C3_Witness ==
    \E o \in Handles :
        outcomes[o] = FailFailOk /\ heap[o].status = SENT /\ heap[o].max_retries = 3

\* C4: an alert starts Pending, and every change of its status is one of
\* Pending->Sent, Pending->Failed, Sent->Acknowledged; so a Failed or
\* Acknowledged alert never changes status again.
StatusEdges == {<<PENDING, SENT>>, <<PENDING, FAILED>>, <<SENT, ACKNOWLEDGED>>}
C4_Step ==
    /\ \A o \in Handles :
           heap'[o].status # heap[o].status
           => <<heap[o].status, heap'[o].status>> \in StatusEdges
    /\ \A o \in (1..Len(heap')) \ Handles : heap'[o].status = PENDING
C4_StatusTransitions == [][C4_Step]_vars

\* C4 witness: one alert ended Acknowledged and another Failed
C4_Witness ==
    \E o, p \in Handles :
        heap[o].status = ACKNOWLEDGED /\ heap[p].status = FAILED

\* C5: acknowledging the id of an alert of the history succeeds, leaves that
\* alert Acknowledged and every other alert as it was; doing it again
\* succeeds again and changes nothing.
C5_AcknowledgeIdempotent ==
    \A o \in Handles :
        InHistory(o)
        => LET id == heap[o].alert_id
               r1 == Acknowledge(id, sent_alerts, heap)
               r2 == Acknowledge(id, sent_alerts, r1.heap)
           IN  /\ r1.status = "success"
               /\ r1.heap[o].status = ACKNOWLEDGED
               /\ \A p \in Handles \ {o} : r1.heap[p] = heap[p]
               /\ r2.status = "success"
               /\ r2.heap = r1.heap

\* C5 witness: an acknowledged alert in the history beside one that is Sent
C5_Witness ==
    \E o, p \in Handles :
        /\ InHistory(o) /\ heap[o].status = ACKNOWLEDGED
        /\ InHistory(p) /\ heap[p].status = SENT

\* C6: acknowledge_alert(id) reports not-found exactly when no alert of the
\* history has that id (an id never made, an alert still queued or in a
\* batch, a Failed alert), and then it changes no alert.
C6_NotFoundExactly ==
    \A id \in KnownIds :
        LET r == Acknowledge(id, sent_alerts, heap)
        IN  /\ r.status \in {"success", "not_found"}
            /\ (r.status = "not_found")
               <=> ~\E o \in Handles : InHistory(o) /\ heap[o].alert_id = id
            /\ r.status = "not_found" => r.heap = heap

\* C6 witness: a queued alert (not found) while another is in the history
C6_Witness ==
    \E o, p \in Handles :
        /\ InQueue(o)
        /\ Acknowledge(heap[o].alert_id, sent_alerts, heap).status = "not_found"
        /\ InHistory(p)
        /\ Acknowledge(heap[p].alert_id, sent_alerts, heap).status = "success"

\* C7: every create_alert call gets an alert id no other call got, also calls
\* of different threads in one clock second; the counter part of the id of a
\* call is greater than that of every id handed out before.
C7_DistinctIds ==
    /\ \A o1, o2 \in Handles : o1 # o2 => heap[o1].alert_id # heap[o2].alert_id
    /\ \A c1, c2 \in Creators :
           (c1 # c2 /\ creator[c1].pc = "made_id" /\ creator[c2].pc = "made_id")
           => creator[c1].alert_id # creator[c2].alert_id
    /\ \A c \in Creators, o \in Handles :
           creator[c].pc = "made_id" => creator[c].alert_id # heap[o].alert_id
C7_CounterIncreases ==
    \A c \in Creators :
        (creator[c].pc = "idle" /\ creator'[c].pc = "made_id")
        => \A id \in IssuedIds : creator'[c].alert_id[1] > id[1]
C7_UniqueAlertIds == []C7_DistinctIds /\ [][C7_CounterIncreases]_vars

\* C7 witness: two threads hold ids made in the same clock second at once
C7_Witness ==
    \E c1, c2 \in Creators :
        /\ c1 # c2
        /\ creator[c1].pc = "made_id" /\ creator[c2].pc = "made_id"
        /\ creator[c1].alert_id[2] = creator[c2].alert_id[2]

\* C8: of two alerts that were never requeued, the one enqueued first (the
\* lower handle) has its delivery attempt started first and, when both are
\* in the history, precedes the other there, also with overlapping calls.
NeverRequeued(o) == heap[o].retry_count = 0
C8_FifoDelivery ==
    \A a, b \in Handles :
        (a < b /\ NeverRequeued(a) /\ NeverRequeued(b))
        => /\ Attempts(b) >= 1 => Attempts(a) >= 1
           /\ (InHistory(a) /\ InHistory(b)) => Position(a) < Position(b)

\* C9: a cancelled attempt counts like a failed one (retry_count is the
\* number of attempts that failed or were cancelled), and no alert a call
\* drained is lost: a Pending alert is in the queue or in a running batch.
C9_CancelIsFailure ==
    \A o \in Handles :
        /\ heap[o].retry_count
               = Count(outcomes[o], "fail") + Count(outcomes[o], "cancel")
        /\ heap[o].status = PENDING => (InQueue(o) \/ Batched(o))

\* C10: a failed attempt changes the alert it was made on and nothing else:
\* no other alert, not the history, no other call; the call goes on to the
\* next alert of its batch, or returns its report when there is none, and
\* a call ends by an exception only when an attempt was cancelled.
C10_FailureStep ==
    \A d \in Deliverers :
        (/\ deliver[d].pc = "await"
         /\ outcomes'[Current(d)] = Append(outcomes[Current(d)], "fail"))
        => /\ \A p \in Handles \ {Current(d)} : heap'[p] = heap[p]
           /\ sent_alerts' = sent_alerts
           /\ \A e \in Deliverers \ {d} : deliver'[e] = deliver[e]
           /\ IF Len(deliver[d].alerts_to_send) > 1
              THEN /\ deliver'[d].pc = "await"
                   /\ deliver'[d].alerts_to_send = Tail(deliver[d].alerts_to_send)
                   /\ deliver'[d].total_processed = deliver[d].total_processed
              ELSE deliver'[d] = IdleDeliver
C10_RaisesOnlyCancelled ==
    \A d \in Deliverers :
        (deliver[d].pc = "await" /\ deliver'[d].pc = "raised")
        => outcomes'[Current(d)] = Append(outcomes[Current(d)], "cancel")
C10_FailureNotFatal == [][C10_FailureStep /\ C10_RaisesOnlyCancelled]_vars

\* C10 witness: a call of a batch of two whose first attempt failed (the
\* alert is requeued, nothing sent or marked failed) is at its second alert
C10_Witness ==
    \E d \in Deliverers, a \in Handles :
        /\ deliver[d].pc = "await"
        /\ deliver[d].total_processed = 2
        /\ Len(deliver[d].alerts_to_send) = 1
        /\ deliver[d].sent_count = 0 /\ deliver[d].failed_count = 0
        /\ InQueue(a) /\ outcomes[a] = <<"fail">>
        /\ \A e \in Deliverers \ {d} : deliver[e].pc = "idle"

\* the batch of suspended call d, and the calls that are suspended
BatchOf(d) == IF deliver[d].pc = "await" THEN SeqToSet(deliver[d].alerts_to_send) ELSE {}
Awaiting == {d \in Deliverers : deliver[d].pc = "await"}

\* C11: while a send_alerts_to_frontend call waits for a delivery no lock is
\* held: create_alert can run (first conjunct), and when it runs it leaves
\* every call's locals alone and puts the new alert at the tail of the queue
\* and in no batch; an alert only ever enters a batch from the queue, when a
\* call that is not suspended starts and drains it.
C11_CreateNotBlocked ==
    (Awaiting # {} /\ alert_counter < Started + MaxAlerts)
    => ENABLED (\E type \in LifecycleTypes, sev \in LifecycleSeverities :
                    CreateAlert(type, sev))
C11_Step ==
    /\ (Awaiting # {} /\ Len(heap') = Len(heap) + 1)
       => /\ deliver' = deliver
          /\ alert_queue' = Append(alert_queue, Len(heap'))
          /\ heap'[Len(heap')].status = PENDING
          /\ \A d \in Deliverers : Len(heap') \notin BatchOf(d)'
    /\ \A d \in Deliverers : \A o \in BatchOf(d)' \ BatchOf(d) :
           deliver[d].pc # "await" /\ InQueue(o)
C11_CreateDuringDelivery == []C11_CreateNotBlocked /\ [][C11_Step]_vars
\* a call still waits for a delivery of its batch, and a later call has
\* drained an alert that was made after the first call's drain
C11_Witness ==
    \E d, e \in Awaiting : \E o \in BatchOf(e) :
        d # e /\ outcomes[o] = <<>> /\ \A b \in BatchOf(d) : b < o

(* ============================================= get_alerts, get_alert_stats *)
MaxLimit == 2           \* largest `limit` a caller passes
MaxHours == 1           \* clock hours that pass in one behaviour

DefaultLimit == 100             \* get_alerts(limit=100)
DefaultHours == 24              \* get_alert_stats(hours=24)
SecondsPerHour == 3600          \* timedelta(hours=hours), clock in s

None == "None"                  \* Python's None where a string may stand

\* str.lower() on the spellings of the filter values callers send
Lower(str) ==
    CASE str = "CRITICAL" -> "critical"
      [] str = "Warning"  -> "warning"
      [] str = "SENT"     -> "sent"
      [] OTHER            -> str

\* `if severity_filter:` -- None and the empty string are false
Truthy(str) == str # None /\ str # ""

\* mutant: seq[:-start], the first elements for the last
SliceFromHead(seq, start) ==
    LET n == Len(seq)
        k == IF start < 0 THEN 0 - start ELSE start
    IN  SubSeq(seq, 1, IF k > n THEN n ELSE k)
\* seq[start:] for any integer start
SliceFrom(seq, start) ==
    LET n == Len(seq)
        from == IF start < 0
                THEN (IF n + start < 0 THEN 0 ELSE n + start)
                ELSE (IF start > n THEN n ELSE start)
    IN  SubSeq(seq, from + 1, n)

\* the dict get_alerts makes of an alert
Serialize(a) ==
    [alert_id |-> a.alert_id, severity |-> a.severity, timestamp |-> a.timestamp,
     status |-> a.status, metadata |-> [issue_type |-> a.issue_type]]

\* get_alerts(limit, severity_filter, status_filter) on history hist of the
\* Alert objects hp
get_alerts(limit, severity_filter, status_filter, hist, hp) ==
    LET HasSeverity(o) == hp[o].severity = Lower(severity_filter)
        HasStatus(o) == hp[o].status = Lower(status_filter)
        copied == hist
        by_severity == IF Truthy(severity_filter)
                       THEN SelectSeq(copied, HasSeverity) ELSE copied
        by_status == IF Truthy(status_filter)
                     THEN SelectSeq(by_severity, HasStatus) ELSE by_severity
        limited == IF limit # 0 THEN SliceFrom(by_status, 0 - limit) ELSE by_status
    IN  [status |-> "success",
         alerts |-> [k \in 1..Len(limited) |-> Serialize(hp[limited[k]])],
         total_count |-> Len(limited)]

\* `alert.timestamp > cutoff_time`, cutoff_time = now - timedelta(hours=hours)
InWindowAlways(a, t, hours) == TRUE                                    \* mutant
InWindow(a, t, hours) == a.timestamp > t - hours * SecondsPerHour

\* counts[key] = counts.get(key, 0) + 1, for every key of keys in order
EmptyDict == [k \in {} |-> 0]
Bump(counts, key) ==
    IF key \in DOMAIN counts
    THEN [counts EXCEPT ![key] = @ + 1]
    ELSE counts @@ (key :> 1)
RECURSIVE Tally(_, _)
Tally(counts, keys) ==
    IF keys = <<>> THEN counts ELSE Tally(Bump(counts, Head(keys)), Tail(keys))

\* get_alert_stats(hours) at time t
get_alert_stats(hours, hist, hp, queue, t) ==
    LET Recent(o) == InWindow(hp[o], t, hours)
        recent_alerts == SelectSeq(hist, Recent)
    IN  [total_alerts |-> Len(recent_alerts),
         time_period_hours |-> hours,
         severity_distribution |->
             Tally(EmptyDict, [k \in 1..Len(recent_alerts) |-> hp[recent_alerts[k]].severity]),
         status_distribution |->
             Tally(EmptyDict, [k \in 1..Len(recent_alerts) |-> hp[recent_alerts[k]].status]),
         queue_size |-> Len(queue)]

\* an hour passes
TickHour ==
    /\ now < MaxHours * SecondsPerHour
    /\ now' = now + SecondsPerHour
    /\ UNCHANGED analysisVars
    /\ UNCHANGED <<threadVars, logVars>>
    /\ UNCHANGED <<alert_counter, heap, outcomes, alert_queue, sent_alerts,
                   creator, deliver>>

\* what the callers of the queries pass
QuerySeverities == {"critical", "warning"}
Limits == 0..MaxLimit
SeverityFilters == {None, "", "critical", "CRITICAL", "warning", "error"}
StatusFilters == {None, SENT, "SENT", ACKNOWLEDGED, FAILED}
Windows == (0..(MaxHours + 1)) \cup {DefaultHours}

\* the history as the queries meet it: alerts of several severities, made
\* hours apart, sent by one call after the other, some acknowledged (a
\* failed delivery changes no alert of the history and is left out)
NextQuery ==
    \/ TickHour
    \/ \E type \in LifecycleTypes, sev \in QuerySeverities : CreateAlert(type, sev)
    \/ DeliverBegin("d1")
    \/ SendOk("d1")
    \/ \E id \in KnownIds : AcknowledgeAlert(id)

SpecQuery == Init /\ [][NextQuery]_vars

\* C12: an alert that became Failed is kept in the history, and get_alerts
\* with status_filter = "failed" returns it.
C12_FailedInHistory ==
    \A o \in Handles :
        heap[o].status = FAILED
        => /\ InHistory(o)
           /\ LET r == get_alerts(DefaultLimit, None, FAILED, sent_alerts, heap)
              IN  \E k \in 1..Len(r.alerts) : r.alerts[k].alert_id = heap[o].alert_id

\* the positions of the history whose alert passes both filters, and the
\* (at most) n last of them
MatchingAt(severity_filter, status_filter) ==
    {k \in 1..Len(sent_alerts) :
        /\ Truthy(severity_filter)
           => heap[sent_alerts[k]].severity = Lower(severity_filter)
        /\ Truthy(status_filter)
           => heap[sent_alerts[k]].status = Lower(status_filter)}
LastOf(P, n) == {k \in P : Cardinality({j \in P : j > k}) < n}
\* the element of P with i - 1 elements of P below it, resp. above it
NthOldest(P, i) == CHOOSE k \in P : Cardinality({j \in P : j < k}) = i - 1
NthNewest(P, i) == CHOOSE k \in P : Cardinality({j \in P : j > k}) = i - 1

InWindowAt(hours) ==
    {k \in 1..Len(sent_alerts) :
        heap[sent_alerts[k]].timestamp > now - hours * SecondsPerHour}
\* a distribution read at a value, and the sum of its counts
CountOf(dist, v) == IF v \in DOMAIN dist THEN dist[v] ELSE 0
RECURSIVE SumOver(_, _)
SumOver(dist, keys) ==
    IF keys = {} THEN 0
    ELSE LET v == CHOOSE x \in keys : TRUE
         IN  dist[v] + SumOver(dist, keys \ {v})

\* C15: in every state, also one in which a delivery call is suspended or an
\* alert was acknowledged, and for every window, get_alert_stats equals a
\* recount of the history: total_alerts is the number of history alerts made
\* in the window, each distribution holds for every value the number of
\* those alerts with the value (no entry for a value none has), and the
\* counts of each distribution sum to total_alerts.
C15_StatsAreRecount ==
    \A hours \in Windows :
        LET s == get_alert_stats(hours, sent_alerts, heap, alert_queue, now)
            W == InWindowAt(hours)
        IN  /\ s.total_alerts = Cardinality(W)
            /\ \A v \in AlertSeverity :
                   /\ CountOf(s.severity_distribution, v) =
                        Cardinality({k \in W : heap[sent_alerts[k]].severity = v})
                   /\ v \in DOMAIN s.severity_distribution
                        => s.severity_distribution[v] > 0
            /\ \A v \in AlertStatus :
                   /\ CountOf(s.status_distribution, v) =
                        Cardinality({k \in W : heap[sent_alerts[k]].status = v})
                   /\ v \in DOMAIN s.status_distribution
                        => s.status_distribution[v] > 0
            /\ DOMAIN s.severity_distribution \subseteq AlertSeverity
            /\ DOMAIN s.status_distribution \subseteq AlertStatus
            /\ SumOver(s.severity_distribution, DOMAIN s.severity_distribution)
                   = s.total_alerts
            /\ SumOver(s.status_distribution, DOMAIN s.status_distribution)
                   = s.total_alerts
            /\ s.queue_size = Len(alert_queue)
\* a delivery call is suspended; the history holds an acknowledged alert made
\* an hour ago and a sent one made now, of two severities: the window of one
\* hour counts one alert, the default window both
C15_Witness ==
    /\ Awaiting # {}
    /\ Cardinality(InWindowAt(1)) = 1
    /\ LET s == get_alert_stats(DefaultHours, sent_alerts, heap, alert_queue, now)
       IN  /\ s.total_alerts = 2
           /\ DOMAIN s.severity_distribution = {"critical", "warning"}
           /\ DOMAIN s.status_distribution = {SENT, ACKNOWLEDGED}

(* ======================================================= the history cap *)
\* The agent after it has sent n alerts, one call after the other, before
\* the clock of the behaviour starts: n Alert objects, all SENT and all in
\* sent_alerts, nothing queued.
Preloaded(n) ==
    /\ now = 0
    /\ alert_counter = n
    /\ heap = [o \in 1..n |->
                  MarkSent(NewAlert(MakeAlertId(o, 0 - 1), "prompt_injection",
                                    "critical", 0 - 1))]
    /\ outcomes = [o \in 1..n |-> <<"ok">>]
    /\ alert_queue = <<>>
    /\ sent_alerts = [o \in 1..n |-> o]
    /\ creator = [c \in Creators |-> IdleCreator]
    /\ deliver = [d \in Deliverers |-> IdleDeliver]

\* the history is one short of its cap, or at it
InitHistory ==
    /\ \E n \in {HistoryCap - 1, HistoryCap} : Preloaded(n)
    /\ InitAnalysis
    /\ InitThreads
    /\ InitLog

NextHistory ==
    \/ \E type \in LifecycleTypes, sev \in LifecycleSeverities : CreateAlert(type, sev)
    \/ DeliverBegin("d1")
    \/ SendOk("d1")
    \/ SendFail("d1")

SpecHistory == InitHistory /\ [][NextHistory]_vars

\* C14: the history never holds more than 1000 alerts, and a step that
\* sends an alert appends it at the end of the history, evicting the oldest
\* entry (and only it) when the history is full; no other step changes the
\* history.  So the history is the last (at most) 1000 sent alerts in send
\* order.
C14_Bounded == Len(sent_alerts) <= HistoryCap
C14_Step ==
    LET sent == {o \in DOMAIN heap : heap[o].status # SENT /\ heap'[o].status = SENT}
    IN  IF sent = {}
        THEN sent_alerts' = sent_alerts
        ELSE \E o \in sent :
                 /\ sent = {o}
                 /\ sent_alerts' = IF Len(sent_alerts) = HistoryCap
                                   THEN Append(Tail(sent_alerts), o)
                                   ELSE Append(sent_alerts, o)
C14_HistoryCapped == []C14_Bounded /\ [][C14_Step]_vars
\* the history is full, its oldest entry was evicted and its newest entry is
\* an alert sent in this behaviour
C14_Witness ==
    /\ Len(sent_alerts) = HistoryCap
    /\ sent_alerts[1] > 1
    /\ heap[sent_alerts[HistoryCap]].timestamp >= 0

(* ============================================================ analyze_log *)
MaxHits == 3            \* pattern matches in one log message
MaxCalls == 3           \* analyze_log calls in one behaviour
MaxIssues == 3          \* length of a list given to _deduplicate_issues

IssueCap == 1000                \* "Keep only last 1000 issues"
DefaultThreshold == 70          \* CONFIDENCE_THRESHOLD "0.7", in hundredths
DefaultLlmConfidence == 50      \* llm_result.get("confidence", 0.5)

\* the three SecurityAnalysisAgent classes: analysis_agent.py,
\* analysis_agent_simple.py (the one app.py imports), analysis_agent_enhanced.py
Variants == {"basic", "simple", "enhanced"}

ThreatLevel == {"low", "medium", "high", "critical"}

\* The patterns, named; of every pattern list the entries that lead it.
PromptPatterns == <<"ignore_instructions", "forget_everything">>
RolePlayPatterns == <<"role_play">>         \* injection_patterns['role_play']
PiiPatterns == <<"email", "ssn">>
SqlPatterns == <<"sql_1", "sql_2">>
XssPatterns == <<"script_tag", "javascript_url">>
SuspiciousPatterns == <<"admin">>
AuthPatterns == <<"authentication_failed">>
Atoms == SeqToSet(PromptPatterns) \cup SeqToSet(RolePlayPatterns)
         \cup SeqToSet(PiiPatterns) \cup SeqToSet(SqlPatterns)
         \cup SeqToSet(XssPatterns) \cup SeqToSet(SuspiciousPatterns)
         \cup SeqToSet(AuthPatterns)

\* A log message: len(re.findall(pattern, message)) for every pattern
\* (re.search finds a match exactly when that is not 0).
NoMatch == [p \in Atoms |-> 0]
RECURSIVE MessagesUpTo(_)
MessagesUpTo(n) ==
    IF n = 0 THEN {NoMatch}
    ELSE LET fewer == MessagesUpTo(n - 1)
         IN  fewer \cup {[m EXCEPT ![p] = @ + 1] : m \in fewer, p \in Atoms}
Messages == MessagesUpTo(MaxHits)

\* SecurityIssue(...), the fields that analyze_log and its callers compare
Issue(type, level, confidence, pattern, description) ==
    [issue_type |-> type, threat_level |-> level, confidence_score |-> confidence,
     matched_pattern |-> pattern, description |-> description]

\* the patterns of a list that match, in list order
Hits(patterns, m) == LET Found(p) == m[p] > 0 IN SelectSeq(patterns, Found)
\* the patterns a loop with `break` after the first match gets to
FirstHit(patterns, m) ==
    LET hits == Hits(patterns, m)
    IN  IF hits = <<>> THEN <<>> ELSE <<Head(hits)>>

\* pii_type.upper() of the key of a pattern in pii_patterns
UpperPiiType(p) == IF p = "ssn" THEN "SSN" ELSE "EMAIL"
\* HIGH if pii_type in ['ssn', 'credit_card'] else MEDIUM
PiiLevel(p) == IF p \in {"ssn", "credit_card"} THEN "high" ELSE "medium"

(* ------------------------------------------------------ analysis_agent.py *)
basic_detect_pii(m) ==
    LET Make(p) == Issue("pii_leakage", PiiLevel(p), 90, p,
                         "Potential " \o UpperPiiType(p) \o " leakage detected")
    IN  [k \in DOMAIN Hits(PiiPatterns, m) |-> Make(Hits(PiiPatterns, m)[k])]

\* one issue for every pattern of every injection type that matches
basic_detect_injection_attempts(m) ==
    LET Prompt(p) == Issue("prompt_injection", "critical", 80, p,
                           "Potential prompt injection attempt detected")
        Sql(p) == Issue("sql_injection", "high", 80, p,
                        "Potential sql injection attempt detected")
        Xss(p) == Issue("xss_attempt", "high", 80, p,
                        "Potential xss attempt detected")
    IN  [k \in DOMAIN Hits(PromptPatterns, m) |-> Prompt(Hits(PromptPatterns, m)[k])]
        \o [k \in DOMAIN Hits(SqlPatterns, m) |-> Sql(Hits(SqlPatterns, m)[k])]
        \o [k \in DOMAIN Hits(XssPatterns, m) |-> Xss(Hits(XssPatterns, m)[k])]

basic_detect_suspicious_patterns(m) ==
    LET Make(p) == Issue("suspicious_pattern", "medium", 60, p,
                         "Suspicious keyword '" \o p \o "' detected")
    IN  [k \in DOMAIN Hits(SuspiciousPatterns, m) |-> Make(Hits(SuspiciousPatterns, m)[k])]

basic_detect_auth_failures(m) ==
    LET Make(p) == Issue("authentication_failure", "medium", 70, p,
                         "Authentication failure detected")
    IN  [k \in DOMAIN Hits(AuthPatterns, m) |-> Make(Hits(AuthPatterns, m)[k])]

(* ----------------------------------------------- analysis_agent_simple.py *)
\* len(pattern.split()): no pattern of security_patterns holds a blank
PatternWords(p) == 1
Least(a, b) == IF a < b THEN a ELSE b
\* _calculate_confidence, in hundredths: 0.5 + min(0.3, n * 0.1)
\* + min(0.2, words * 0.05), at most 1.0
calculate_confidence(p, m) ==
    IF m[p] = 0 THEN 0
    ELSE Least(100, 50 + Least(30, m[p] * 10) + Least(20, PatternWords(p) * 5))

simple_detect_prompt_injection(m) ==
    LET Make(p) == Issue("prompt_injection",
                         IF calculate_confidence(p, m) > 80 THEN "critical" ELSE "high",
                         calculate_confidence(p, m), p,
                         "Potential prompt injection attempt detected: '" \o p \o "'")
    IN  [k \in DOMAIN FirstHit(PromptPatterns, m) |-> Make(FirstHit(PromptPatterns, m)[k])]

\* min(0.9, len(matches) * 0.3) in hundredths; the product is a binary
\* floating point one, and 3 * 0.3 is 0.8999999999999999, below 0.9
PiiConfidence(n) == IF n = 3 THEN 89 ELSE Least(90, n * 30)

simple_detect_pii_leakage(m) ==
    LET Make(p) == Issue("pii_leakage",
                         IF PiiConfidence(m[p]) > 60 THEN "high" ELSE "medium",
                         PiiConfidence(m[p]), p,
                         "PII data detected: " \o ToString(m[p]) \o " matches found")
    IN  [k \in DOMAIN Hits(PiiPatterns, m) |-> Make(Hits(PiiPatterns, m)[k])]

simple_detect_sql_injection(m) ==
    LET Make(p) == Issue("sql_injection",
                         IF calculate_confidence(p, m) > 70 THEN "critical" ELSE "high",
                         calculate_confidence(p, m), p,
                         "Potential SQL injection attempt detected")
    IN  [k \in DOMAIN FirstHit(SqlPatterns, m) |-> Make(FirstHit(SqlPatterns, m)[k])]

simple_detect_xss_attempts(m) ==
    LET Make(p) == Issue("xss_attempt",
                         IF calculate_confidence(p, m) > 60 THEN "high" ELSE "medium",
                         calculate_confidence(p, m), p,
                         "Potential XSS attempt detected")
    IN  [k \in DOMAIN FirstHit(XssPatterns, m) |-> Make(FirstHit(XssPatterns, m)[k])]

simple_detect_suspicious_patterns(m) ==
    LET Make(p) == Issue("suspicious_pattern",
                         IF calculate_confidence(p, m) > 50 THEN "medium" ELSE "low",
                         calculate_confidence(p, m), p,
                         "Suspicious pattern detected: '" \o p \o "'")
    IN  [k \in DOMAIN FirstHit(SuspiciousPatterns, m) |->
            Make(FirstHit(SuspiciousPatterns, m)[k])]

(* --------------------------------------------- analysis_agent_enhanced.py *)
\* `break` leaves the loop over the patterns of one injection type only: one
\* issue for 'prompt_injection' and one for 'role_play', both PROMPT_INJECTION
enhanced_detect_prompt_injection(m) ==
    LET Prompt(p) == Issue("prompt_injection", "critical", 80, p,
                           "Potential prompt injection attempt detected")
        Role(p) == Issue("prompt_injection", "high", 80, p,
                         "Potential role play attempt detected")
    IN  [k \in DOMAIN FirstHit(PromptPatterns, m) |->
            Prompt(FirstHit(PromptPatterns, m)[k])]
        \o [k \in DOMAIN FirstHit(RolePlayPatterns, m) |->
               Role(FirstHit(RolePlayPatterns, m)[k])]

enhanced_detect_pii(m) ==
    LET Make(p) == Issue("pii_leakage", PiiLevel(p), 90, p,
                         "Potential " \o UpperPiiType(p) \o " leakage detected")
    IN  [k \in DOMAIN Hits(PiiPatterns, m) |-> Make(Hits(PiiPatterns, m)[k])]

enhanced_detect_sql_injection(m) ==
    LET Make(p) == Issue("sql_injection", "high", 80, p,
                         "Potential SQL injection attempt detected")
    IN  [k \in DOMAIN FirstHit(SqlPatterns, m) |-> Make(FirstHit(SqlPatterns, m)[k])]

enhanced_detect_xss(m) ==
    LET Make(p) == Issue("xss_attempt", "high", 80, p,
                         "Potential XSS attempt detected")
    IN  [k \in DOMAIN FirstHit(XssPatterns, m) |-> Make(FirstHit(XssPatterns, m)[k])]

enhanced_detect_suspicious_keywords(m) ==
    LET Make(p) == Issue("suspicious_pattern", "medium", 60, p,
                         "Suspicious keyword '" \o p \o "' detected")
    IN  [k \in DOMAIN Hits(SuspiciousPatterns, m) |-> Make(Hits(SuspiciousPatterns, m)[k])]

\* dict.get(key, default) on a key that may be missing: <<>> or <<value>>
Get(entry, default) == IF entry = <<>> THEN default ELSE entry[1]

\* what llm_provider.analyze_security_threat returns: {"enabled": False, ...}
\* without a provider or when the provider call failed, else the parsed answer
\* of the model, whose keys may be missing and whose values are the model's
\* the model is asked for "confidence": 0.0-1.0 and its answer is taken as it
\* is parsed: a confidence above 1.0, in hundredths
OverConfidence == 150
NoLlm == [enabled |-> FALSE, threats_detected |-> FALSE,
          threat_level |-> <<>>, confidence |-> <<>>]
LlmResults ==
    {NoLlm} \cup
    [enabled : {TRUE}, threats_detected : BOOLEAN,
     threat_level : {<<>>, <<"low">>, <<"critical">>, <<"severe">>},
     confidence : {<<>>, <<DefaultThreshold - 1>>, <<DefaultThreshold>>, <<100>>,
                   <<OverConfidence>>}]

MeetsThresholdStrict(confidence, threshold) == confidence > threshold   \* mutant
\* if confidence >= self.confidence_threshold
MeetsThreshold(confidence, threshold) == confidence >= threshold

\* _llm_based_analysis: ThreatLevel(value) raises ValueError on a value that
\* is no threat level, which the except branch swallows
llm_based_analysis(llm, threshold) ==
    IF ~llm.enabled THEN <<>>
    ELSE IF ~llm.threats_detected THEN <<>>
    ELSE LET level == Get(llm.threat_level, "medium")
             confidence == Get(llm.confidence, DefaultLlmConfidence)
         IN  IF level \notin ThreatLevel THEN <<>>
             ELSE IF MeetsThreshold(confidence, threshold)
             THEN <<Issue("llm_detected_threat", level, confidence, None,
                          "LLM detected potential threat")>>
             ELSE <<>>

\* key = (issue.issue_type, issue.matched_pattern or issue.description)
DedupKey(issue) ==
    <<issue.issue_type,
      IF Truthy(issue.matched_pattern) THEN issue.matched_pattern
      ELSE issue.description>>

\* mutant: a later issue replaces the one kept for its key
RECURSIVE DedupKeepsLast(_)
DedupKeepsLast(issues) ==
    IF issues = <<>> THEN <<>>
    ELSE LET rest == DedupKeepsLast(Tail(issues))
         IN  IF \E k \in 1..Len(rest) : DedupKey(rest[k]) = DedupKey(Head(issues))
             THEN rest ELSE <<Head(issues)>> \o rest
\* _deduplicate_issues: the loop over issues with `seen` and `unique_issues`
RECURSIVE DedupFrom(_, _, _)
DedupFrom(seen, unique_issues, issues) ==
    IF issues = <<>> THEN unique_issues
    ELSE IF DedupKey(Head(issues)) \in seen
         THEN DedupFrom(seen, unique_issues, Tail(issues))
         ELSE DedupFrom(seen \cup {DedupKey(Head(issues))},
                        Append(unique_issues, Head(issues)), Tail(issues))
deduplicate_issues(issues) == DedupFrom({}, <<>>, issues)

\* the detectors analyze_log of a class calls, in the order of the calls
Detectors(v) ==
    CASE v = "basic"    -> <<"pii", "injection", "suspicious", "auth">>
      [] v = "simple"   -> <<"prompt_injection", "pii", "sql", "xss", "suspicious">>
      [] v = "enhanced" -> <<"prompt_injection", "pii", "sql", "xss", "suspicious">>

Detect(v, name, m) ==
    CASE v = "basic" /\ name = "pii"                 -> basic_detect_pii(m)
      [] v = "basic" /\ name = "injection"           -> basic_detect_injection_attempts(m)
      [] v = "basic" /\ name = "suspicious"          -> basic_detect_suspicious_patterns(m)
      [] v = "basic" /\ name = "auth"                -> basic_detect_auth_failures(m)
      [] v = "simple" /\ name = "prompt_injection"   -> simple_detect_prompt_injection(m)
      [] v = "simple" /\ name = "pii"                -> simple_detect_pii_leakage(m)
      [] v = "simple" /\ name = "sql"                -> simple_detect_sql_injection(m)
      [] v = "simple" /\ name = "xss"                -> simple_detect_xss_attempts(m)
      [] v = "simple" /\ name = "suspicious"         -> simple_detect_suspicious_patterns(m)
      [] v = "enhanced" /\ name = "prompt_injection" -> enhanced_detect_prompt_injection(m)
      [] v = "enhanced" /\ name = "pii"              -> enhanced_detect_pii(m)
      [] v = "enhanced" /\ name = "sql"              -> enhanced_detect_sql_injection(m)
      [] v = "enhanced" /\ name = "xss"              -> enhanced_detect_xss(m)
      [] v = "enhanced" /\ name = "suspicious"       -> enhanced_detect_suspicious_keywords(m)

\* issues.extend(...) for the detectors `names`, one after the other
RECURSIVE Collect(_, _, _)
Collect(v, m, names) ==
    IF names = <<>> THEN <<>>
    ELSE Detect(v, Head(names), m) \o Collect(v, m, Tail(names))

\* analysis_agent.py: for issue in issues: append, keep the last 1000
RECURSIVE StoreCapped(_, _)
StoreCapped(buffer, issues) ==
    IF issues = <<>> THEN buffer
    ELSE LET b2 == Append(buffer, Head(issues))
         IN  StoreCapped(IF Len(b2) > IssueCap
                         THEN SubSeq(b2, Len(b2) - IssueCap + 1, Len(b2))
                         ELSE b2,
                         Tail(issues))

\* analyze_log of class v on message m, with the answer `llm` of the
\* provider, when detector `fault` raises ("none": no detector does):
\* what it returns or that it raises, and what it leaves in the buffer
analyze_log(v, m, llm_analysis_enabled, llm, fault, buffer) ==
    IF fault # "none"
    THEN \* basic: `except Exception: return []`; the others catch nothing
         [raised |-> v # "basic", issues |-> <<>>, buffer |-> buffer]
    ELSE CASE v = "basic" ->
                [raised |-> FALSE, issues |-> Collect(v, m, Detectors(v)),
                 buffer |-> StoreCapped(buffer, Collect(v, m, Detectors(v)))]
           [] v = "simple" ->
                [raised |-> FALSE, issues |-> Collect(v, m, Detectors(v)),
                 buffer |-> buffer \o Collect(v, m, Detectors(v))]
           [] v = "enhanced" ->
                [raised |-> FALSE,
                 issues |-> deduplicate_issues(
                     Collect(v, m, Detectors(v))
                     \o IF llm_analysis_enabled
                        THEN llm_based_analysis(llm, DefaultThreshold) ELSE <<>>),
                 buffer |-> buffer]

\* one call of analyze_log
Analyze(m, llm_analysis_enabled, llm, fault) ==
    LET r == analyze_log(agent, m, llm_analysis_enabled, llm, fault, detected_issues)
    IN  /\ request' = [op |-> "analyze", message |-> m,
                       llm_analysis_enabled |-> llm_analysis_enabled,
                       llm |-> llm, fault |-> fault]
        /\ returned' = [raised |-> r.raised, issues |-> r.issues]
        /\ detected_issues' = r.buffer
        /\ calls' = calls + 1
        /\ UNCHANGED agent
        /\ UNCHANGED alertVars
        /\ UNCHANGED <<threadVars, logVars>>

\* any of the three classes, constructed
InitAnalyze ==
    /\ InitAlerts
    /\ InitThreads
    /\ InitLog
    /\ agent \in Variants
    /\ detected_issues = <<>>
    /\ request = NoRequest
    /\ returned = NoReturn
    /\ calls = 0

\* One analyze_log call on any message.  Only the enhanced class has a
\* provider; with LLM_ANALYSIS_ENABLED off it is not asked.
NextAnalyze ==
    /\ calls = 0
    /\ \E m \in Messages, fault \in {"none"} \cup SeqToSet(Detectors(agent)),
          llm_analysis_enabled \in BOOLEAN, llm \in LlmResults :
           /\ agent # "enhanced" => ~llm_analysis_enabled
           /\ ~llm_analysis_enabled => llm = NoLlm
           /\ fault # "none" => ~llm_analysis_enabled
           /\ Analyze(m, llm_analysis_enabled, llm, fault)

SpecAnalyze == InitAnalyze /\ [][NextAnalyze]_vars

(* ------------------------------------------------- _deduplicate_issues *)
\* Issues as the detectors make them, among them issues that agree in type
\* and pattern and differ in the rest, and issues without a pattern that
\* agree or differ in their description.
SampleIssues ==
    {Issue("prompt_injection", "critical", 80, "ignore_instructions",
           "Potential prompt injection attempt detected"),
     Issue("prompt_injection", "high", 60, "ignore_instructions",
           "Potential role play attempt detected"),
     Issue("pii_leakage", "medium", 90, "email", "Potential EMAIL leakage detected"),
     Issue("llm_detected_threat", "low", DefaultThreshold, None,
           "LLM detected potential threat"),
     Issue("llm_detected_threat", "critical", 100, None,
           "LLM detected potential threat"),
     Issue("llm_detected_threat", "critical", 100, None, "data exfiltration")}

RECURSIVE ListsUpTo(_)
ListsUpTo(n) ==
    IF n = 0 THEN {<<>>}
    ELSE LET shorter == ListsUpTo(n - 1)
         IN  shorter \cup {Append(l, i) : l \in shorter, i \in SampleIssues}

\* _deduplicate_issues called on a list of issues
Deduplicate(issues) ==
    /\ calls = 0
    /\ request' = [op |-> "dedup", issues |-> issues]
    /\ returned' = [raised |-> FALSE, issues |-> deduplicate_issues(issues)]
    /\ calls' = calls + 1
    /\ UNCHANGED <<agent, detected_issues>>
    /\ UNCHANGED alertVars
    /\ UNCHANGED <<threadVars, logVars>>

InitDedup ==
    /\ InitAlerts
    /\ InitThreads
    /\ InitLog
    /\ agent = "enhanced"
    /\ detected_issues = <<>>
    /\ request = NoRequest
    /\ returned = NoReturn
    /\ calls = 0

NextDedup == \E issues \in ListsUpTo(MaxIssues) : Deduplicate(issues)

SpecDedup == InitDedup /\ [][NextDedup]_vars

\* the positions of a list whose issue is the first of the list with its key
FirstOfKey(issues) ==
    {i \in 1..Len(issues) :
        \A j \in 1..(i - 1) : DedupKey(issues[j]) # DedupKey(issues[i])}

\* C16: the deduplication returns the issues that are the first of the list
\* with their key (type, matched pattern or else description), each as it
\* was given and in the order of the list, and nothing else; so no two
\* returned issues have the same key, and no two returned issues that have a
\* matched pattern agree in type and pattern.
C16_FirstOccurrenceWins ==
    request.op = "dedup"
    => LET given == request.issues
           kept == returned.issues
           P == FirstOfKey(given)
       IN  /\ Len(kept) = Cardinality(P)
           /\ \A k \in 1..Len(kept) : kept[k] = given[NthOldest(P, k)]
           /\ \A i, j \in 1..Len(kept) :
                  i # j => /\ DedupKey(kept[i]) # DedupKey(kept[j])
                           /\ (Truthy(kept[i].matched_pattern)
                               /\ Truthy(kept[j].matched_pattern))
                              => <<kept[i].issue_type, kept[i].matched_pattern>>
                                 # <<kept[j].issue_type, kept[j].matched_pattern>>
\* a list of three issues whose second issue repeats the key of the first
\* with another threat level: the first and the third are returned
C16_Witness ==
    /\ request.op = "dedup"
    /\ Len(request.issues) = 3
    /\ DedupKey(request.issues[1]) = DedupKey(request.issues[2])
    /\ request.issues[1].threat_level # request.issues[2].threat_level
    /\ returned.issues = <<request.issues[1], request.issues[3]>>

\* the issues of a list with a type
OfType(issues, type) == LET Is(i) == i.issue_type = type IN SelectSeq(issues, Is)
\* the pattern list of analyze_log's class for a category with several patterns
CategoryPatterns(v, type) ==
    CASE type = "prompt_injection" ->
             IF v = "enhanced" THEN PromptPatterns \o RolePlayPatterns
             ELSE PromptPatterns
      [] type = "sql_injection" -> SqlPatterns
      [] type = "xss_attempt" -> XssPatterns
\* a call of analyze_log in which no detector raised has returned
Analyzed == request.op = "analyze" /\ request.fault = "none" /\ ~returned.raised

\* C17: a call of analyze_log returns at most one issue of each of the types
\* prompt_injection, sql_injection and xss_attempt: none when no pattern of
\* the category matches the message, else the issue of the first pattern of
\* the category's list that matches.
C17_OneIssuePerCategory ==
    Analyzed
    => \A type \in {"prompt_injection", "sql_injection", "xss_attempt"} :
           LET found == OfType(returned.issues, type)
               hits == Hits(CategoryPatterns(agent, type), request.message)
           IN  /\ Len(found) <= 1
               /\ Len(found) = 1 <=> hits # <<>>
               /\ Len(found) = 1 => found[1].matched_pattern = Head(hits)

\* the answer of the provider passes every test of _llm_based_analysis
LlmAccepted ==
    /\ agent = "enhanced"
    /\ request.llm_analysis_enabled
    /\ request.llm.enabled
    /\ request.llm.threats_detected
    /\ Get(request.llm.threat_level, "medium") \in ThreatLevel
    /\ Get(request.llm.confidence, DefaultLlmConfidence) >= DefaultThreshold

\* C18: analyze_log returns exactly one llm_detected_threat issue, with the
\* threat level and the confidence of the provider's answer as they are
\* ("medium" and 0.5 where the answer has none), when the class has a
\* provider, LLM analysis is enabled, the answer is enabled, reports
\* threats_detected and a confidence >= the threshold (an answer whose threat
\* level is no ThreatLevel value makes the LLM analysis fail); in every other
\* case it returns none.  In both cases the other issues returned are the
\* issues of the rule-based detectors, in their order.
C18_LlmIssueIffAccepted ==
    Analyzed
    => LET llm_issues == OfType(returned.issues, "llm_detected_threat")
           NotLlm(i) == i.issue_type # "llm_detected_threat"
       IN  /\ LlmAccepted
              => /\ Len(llm_issues) = 1
                 /\ llm_issues[1].threat_level = Get(request.llm.threat_level, "medium")
                 /\ llm_issues[1].confidence_score =
                        Get(request.llm.confidence, DefaultLlmConfidence)
           /\ ~LlmAccepted => llm_issues = <<>>
           /\ SelectSeq(returned.issues, NotLlm)
                  = Collect(agent, request.message, Detectors(agent))
\* the answer reports a critical threat with a confidence that is exactly
\* the threshold, on a message two rule-based detectors report as well
C18_Witness ==
    /\ Analyzed /\ LlmAccepted
    /\ request.llm.confidence = <<DefaultThreshold>>
    /\ request.llm.threat_level = <<"critical">>
    /\ Len(returned.issues) = 3
    /\ returned.issues[3].issue_type = "llm_detected_threat"

\* C19: when one detector raises during analyze_log, analyze_log does not
\* raise and returns the issues of all the other detectors, in their order.
C19_DetectorFailureIsolated ==
    (request.op = "analyze" /\ request.fault # "none")
    => /\ ~returned.raised
       /\ LET Other(name) == name # request.fault
          IN  returned.issues
                  = Collect(agent, request.message, SelectSeq(Detectors(agent), Other))

(* ------------------------------------------------ the recent-issue buffer *)
\* an issue of an earlier call
EarlierIssue ==
    Issue("suspicious_pattern", "medium", 60, "admin",
          "Suspicious keyword 'admin' detected")

\* messages with no, one and two issues
WithHit(m, p) == [m EXCEPT ![p] = @ + 1]
BufferMessages ==
    {NoMatch, WithHit(NoMatch, "email"), WithHit(NoMatch, "ssn"),
     WithHit(WithHit(NoMatch, "email"), "ssn")}

\* a class that keeps a buffer, after calls that have left 999 or 1000
\* issues in it
InitBuffer ==
    /\ InitAlerts
    /\ InitThreads
    /\ InitLog
    /\ agent \in {"basic", "simple"}
    /\ \E n \in {IssueCap - 1, IssueCap} : detected_issues = [k \in 1..n |-> EarlierIssue]
    /\ request = NoRequest
    /\ returned = NoReturn
    /\ calls = 0

NextBuffer ==
    /\ calls < MaxCalls
    /\ \E m \in BufferMessages : Analyze(m, FALSE, NoLlm, "none")

SpecBuffer == InitBuffer /\ [][NextBuffer]_vars

\* the last (at most) n elements of a sequence
LastN(seq, n) == IF Len(seq) > n THEN SubSeq(seq, Len(seq) - n + 1, Len(seq)) ELSE seq

\* C20: every call of analyze_log leaves in the buffer at most 1000 issues:
\* the last 1000 of the issues it held before, followed by the issues the
\* call returned.
C20_Step ==
    calls' = calls + 1
    => /\ Len(detected_issues') <= IssueCap
       /\ detected_issues' = LastN(detected_issues \o returned'.issues, IssueCap)
C20_BufferCapped == [][C20_Step]_vars

(* ================================================ analyze_log on threads *)
\* analyze_log of analysis_agent.py and analysis_agent_simple.py takes no
\* lock.  Called from several threads, a call is interleaved with the others
\* between its statements; the detectors read nothing shared, so a call
\* starts here with its list `issues` made.  A thread makes one call and
\* keeps the list it returned.

\* `for issue in issues:` goes to the next issue, or the loop is over and
\* analyze_log returns `issues`
NextIssue(loc) ==
    IF loc.i < Len(loc.issues)
    THEN [loc EXCEPT !.pc = "append", !.i = @ + 1, !.kept = <<>>]
    ELSE [loc EXCEPT !.pc = "returned", !.kept = <<>>]

\* the detectors have run on message m
AnalyzeBegin(t, m) ==
    /\ analyzer[t].pc = "idle"
    /\ LET issues == Collect(agent, m, Detectors(agent))
       IN  analyzer' = [analyzer EXCEPT ![t] =
               IF agent = "basic"
               THEN NextIssue([IdleAnalyzer EXCEPT !.issues = issues])
               ELSE [IdleAnalyzer EXCEPT !.issues = issues, !.pc = "extend"]]
    /\ UNCHANGED <<agent, detected_issues, request, returned, calls, lock>>
    /\ UNCHANGED <<alertVars, logVars>>

\* analysis_agent.py: self.detected_issues.append(issue)
StoreAppend(t) ==
    /\ analyzer[t].pc = "append"
    /\ detected_issues' = Append(detected_issues, analyzer[t].issues[analyzer[t].i])
    /\ analyzer' = [analyzer EXCEPT ![t].pc = "check"]
    /\ UNCHANGED <<agent, request, returned, calls, lock>>
    /\ UNCHANGED <<alertVars, logVars>>

\* if len(self.detected_issues) > 1000:
StoreCheck(t) ==
    /\ analyzer[t].pc = "check"
    /\ analyzer' = [analyzer EXCEPT ![t] =
                       IF Len(detected_issues) > IssueCap
                       THEN [@ EXCEPT !.pc = "slice"]
                       ELSE NextIssue(@)]
    /\ UNCHANGED <<agent, detected_issues, request, returned, calls, lock>>
    /\ UNCHANGED <<alertVars, logVars>>

\* the right-hand side self.detected_issues[-1000:] is evaluated
StoreSlice(t) ==
    /\ analyzer[t].pc = "slice"
    /\ analyzer' = [analyzer EXCEPT ![t].pc = "assign",
                                    ![t].kept = SliceFrom(detected_issues, 0 - IssueCap)]
    /\ UNCHANGED <<agent, detected_issues, request, returned, calls, lock>>
    /\ UNCHANGED <<alertVars, logVars>>

\* self.detected_issues = <the slice>
StoreAssign(t) ==
    /\ analyzer[t].pc = "assign"
    /\ detected_issues' = analyzer[t].kept
    /\ analyzer' = [analyzer EXCEPT ![t] = NextIssue(@)]
    /\ UNCHANGED <<agent, request, returned, calls, lock>>
    /\ UNCHANGED <<alertVars, logVars>>

\* analysis_agent_simple.py: self.issues_detected.extend(issues); return issues
StoreExtend(t) ==
    /\ analyzer[t].pc = "extend"
    /\ detected_issues' = detected_issues \o analyzer[t].issues
    /\ analyzer' = [analyzer EXCEPT ![t].pc = "returned"]
    /\ UNCHANGED <<agent, request, returned, calls, lock>>
    /\ UNCHANGED <<alertVars, logVars>>

\* two threads call analyze_log of one agent whose buffer is nearly full
NextStore ==
    \/ \E t \in Analyzers, m \in BufferMessages : AnalyzeBegin(t, m)
    \/ \E t \in Analyzers : StoreAppend(t)
    \/ \E t \in Analyzers : StoreCheck(t)
    \/ \E t \in Analyzers : StoreSlice(t)
    \/ \E t \in Analyzers : StoreAssign(t)
    \/ \E t \in Analyzers : StoreExtend(t)

SpecStore == InitBuffer /\ [][NextStore]_vars

\* the issues the calls made so far have returned: (thread, index) pairs
ReturnedAt ==
    UNION {{<<t, k>> : k \in DOMAIN analyzer[t].issues} :
              t \in {u \in Analyzers : analyzer[u].pc = "returned"}}

\* C21: once every analyze_log call that was made has returned, the
\* buffer holds every issue the calls appended, as often as it was appended
\* (the issues evicted for the cap are the oldest, those of earlier calls).
C21_NoIssueLost ==
    (\A t \in Analyzers : analyzer[t].pc \in {"idle", "returned"})
    => \A tk \in ReturnedAt :
           LET x == analyzer[tk[1]].issues[tk[2]]
           IN  Count(detected_issues, x) =
                   Cardinality({uj \in ReturnedAt :
                                   analyzer[uj[1]].issues[uj[2]] = x})

\* C22: every issue analyze_log returns has a confidence score within
\* [0, 1] (0 to 100 hundredths): for every match count, every pattern and
\* every answer of the LLM provider.
C22_ConfidenceInRange ==
    Analyzed
    => \A k \in 1..Len(returned.issues) :
           /\ returned.issues[k].confidence_score >= 0
           /\ returned.issues[k].confidence_score <= 100

\* the PII issues a call returned for the SSN pattern
SsnIssues ==
    LET Is(i) == i.issue_type = "pii_leakage" /\ i.matched_pattern = "ssn"
    IN  SelectSeq(returned.issues, Is)

\* C23: for a message the SSN pattern matches, once or more often,
\* analyze_log of every class returns a pii_leakage issue for it, and that
\* issue has threat level high and a confidence score >= 0.9 (the level is
\* fixed by the PII type and does not follow the confidence).
C23_SsnIsHigh ==
    (Analyzed /\ request.message["ssn"] >= 1)
    => /\ Len(SsnIssues) = 1
       /\ SsnIssues[1].threat_level = "high"
       /\ SsnIssues[1].confidence_score >= 90

\* C24: when a delivery attempt fails and the incremented retry_count is
\* still below max_retries, the alert stays Pending and is put at the tail
\* of the queue as it is at that moment, behind the alerts that were created
\* while the call was running; nothing else of the queue changes.
C24_Step ==
    \A d \in Deliverers :
        (/\ deliver[d].pc = "await"
         /\ outcomes'[Current(d)] = Append(outcomes[Current(d)], "fail")
         /\ heap[Current(d)].retry_count + 1 < heap[Current(d)].max_retries)
        => /\ heap'[Current(d)].status = PENDING
           /\ heap'[Current(d)].retry_count = heap[Current(d)].retry_count + 1
           /\ alert_queue' = Append(alert_queue, Current(d))
C24_RequeuedAtTail == [][C24_Step]_vars
\* the queue holds an alert that was never attempted, made after the drain
\* that took alert o, and behind it alert o, requeued after a failed attempt
\* of a call that is still running
C24_Witness ==
    \E i, j \in 1..Len(alert_queue) :
        /\ i < j
        /\ alert_queue[i] > alert_queue[j]
        /\ outcomes[alert_queue[i]] = <<>>
        /\ outcomes[alert_queue[j]] = <<"fail">>
        /\ heap[alert_queue[j]].status = PENDING
        /\ Awaiting # {}

(* ==================================== send_alerts_to_frontend on a thread *)
\* AlertAgent guards sent_alerts and the counter with a threading.Lock, for
\* callers on other threads than the one send_alerts_to_frontend runs on.
\* Here a call is followed statement by statement through the body of its
\* for loop, and `lock` is the thread inside a `with self._lock` block.
\* create_alert and acknowledge_alert enter their block when the lock is
\* free.

\* `await self._send_alert_to_frontend(...)` returned
Delivered(d) ==
    /\ deliver[d].pc = "await"
    /\ deliver' = [deliver EXCEPT ![d].pc = "delivered"]
    /\ outcomes' = [outcomes EXCEPT ![Current(d)] = Append(@, "ok")]
    /\ UNCHANGED <<now, alert_counter, heap, alert_queue, sent_alerts, creator>>
    /\ UNCHANGED <<analysisVars, threadVars, logVars>>

\* alert.status = AlertStatus.SENT; sent_count += 1
WriteSent(d) ==
    /\ deliver[d].pc = "delivered"
    /\ heap' = [heap EXCEPT ![Current(d)] = MarkSent(@)]
    /\ deliver' = [deliver EXCEPT ![d].pc = "with_lock", ![d].sent_count = @ + 1]
    /\ UNCHANGED <<now, alert_counter, outcomes, alert_queue, sent_alerts, creator>>
    /\ UNCHANGED <<analysisVars, threadVars, logVars>>

\* with self._lock:
AcquireLock(d) ==
    /\ deliver[d].pc = "with_lock"
    /\ lock = "free"
    /\ lock' = d
    /\ deliver' = [deliver EXCEPT ![d].pc = "locked"]
    /\ UNCHANGED <<now, alert_counter, heap, outcomes, alert_queue, sent_alerts,
                   creator, analyzer>>
    /\ UNCHANGED <<analysisVars, logVars>>

\* self.sent_alerts.append(alert), keep the last 1000; the block ends
AppendSent(d) ==
    /\ deliver[d].pc = "locked"
    /\ sent_alerts' = AppendCapped(sent_alerts, Current(d))
    /\ lock' = "free"
    /\ deliver' = [deliver EXCEPT ![d] = Advance(@)]
    /\ UNCHANGED <<now, alert_counter, heap, outcomes, alert_queue, creator, analyzer>>
    /\ UNCHANGED <<analysisVars, logVars>>

\* the await raised an Exception
DeliveryRaised(d) ==
    /\ deliver[d].pc = "await"
    /\ deliver' = [deliver EXCEPT ![d].pc = "except"]
    /\ outcomes' = [outcomes EXCEPT ![Current(d)] = Append(@, "fail")]
    /\ UNCHANGED <<now, alert_counter, heap, alert_queue, sent_alerts, creator>>
    /\ UNCHANGED <<analysisVars, threadVars, logVars>>

\* alert.retry_count += 1
CountRetry(d) ==
    /\ deliver[d].pc = "except"
    /\ heap' = [heap EXCEPT ![Current(d)].retry_count = @ + 1]
    /\ deliver' = [deliver EXCEPT ![d].pc = "counted"]
    /\ UNCHANGED <<now, alert_counter, outcomes, alert_queue, sent_alerts, creator>>
    /\ UNCHANGED <<analysisVars, threadVars, logVars>>

\* if alert.retry_count < alert.max_retries: put back; else FAILED
RetryOrFail(d) ==
    /\ deliver[d].pc = "counted"
    /\ heap' = [heap EXCEPT ![Current(d)] =
                   IF Requeue(@) THEN @ ELSE [@ EXCEPT !.status = FAILED]]
    /\ alert_queue' = IF Requeue(heap[Current(d)])
                      THEN Put(alert_queue, Current(d))
                      ELSE alert_queue
    /\ deliver' = [deliver EXCEPT ![d] =
                      AfterFailureLocals(@, Requeue(heap[Current(d)]))]
    /\ UNCHANGED <<now, alert_counter, outcomes, sent_alerts, creator>>
    /\ UNCHANGED <<analysisVars, threadVars, logVars>>

\* one thread runs send_alerts_to_frontend, call after call; other threads
\* create and acknowledge alerts
NextThreads ==
    \/ \E type \in LifecycleTypes, sev \in LifecycleSeverities :
           lock = "free" /\ CreateAlert(type, sev)
    \/ deliver["d1"].pc = "idle" /\ DeliverBegin("d1")
    \/ Delivered("d1")
    \/ WriteSent("d1")
    \/ AcquireLock("d1")
    \/ AppendSent("d1")
    \/ DeliveryRaised("d1")
    \/ CountRetry("d1")
    \/ RetryOrFail("d1")
    \/ \E id \in KnownIds : lock = "free" /\ AcknowledgeAlert(id)

SpecThreads == Init /\ [][NextThreads]_vars

\* the alert a call is at, whatever statement of the loop body it is at
Busy(d) == deliver[d].pc \notin {"idle", "raised"}
\* the last delivery attempt on alert o ended with `how`
LastOutcome(o, how) ==
    outcomes[o] # <<>> /\ outcomes[o][Len(outcomes[o])] = how

\* C25: a step of send_alerts_to_frontend that writes an alert's status or
\* retry_count, or puts an alert back into the queue, is made by the thread
\* that holds the lock; and whenever the lock is free (a reader can take
\* it), every alert whose last attempt succeeded is Sent or Acknowledged and
\* in the history, and every alert whose last attempt failed has that
\* failure counted and is queued again or Failed.
C25_WriteStep ==
    \A d \in Deliverers :
        (/\ Busy(d)
         /\ deliver'[d] # deliver[d]
         /\ \/ \E o \in Handles : heap'[o].status # heap[o].status
            \/ \E o \in Handles : heap'[o].retry_count # heap[o].retry_count
            \/ Len(alert_queue') > Len(alert_queue))
        => lock = d
C25_Settled ==
    lock = "free"
    => \A o \in Handles :
           /\ LastOutcome(o, "ok")
              => heap[o].status \in {SENT, ACKNOWLEDGED} /\ InHistory(o)
           /\ LastOutcome(o, "fail")
              => /\ heap[o].retry_count = Count(outcomes[o], "fail")
                 /\ \/ heap[o].status = FAILED
                    \/ InQueue(o)
                    \/ \E d \in Deliverers :
                           Busy(d) /\ o \in SeqToSet(deliver[d].alerts_to_send)
C25_WritesUnderLock == []C25_Settled /\ [][C25_WriteStep]_vars

(* ============================================ delivery that keeps running *)
\* The lifecycle when send_alerts_to_frontend keeps being called and every
\* delivery attempt returns: _send_alert_to_frontend awaits a sleep and a
\* request, and ends by returning or by raising.
\* (acknowledge_alert changes nothing a delivery reads and is left out)
NextLive ==
    \/ \E type \in LifecycleTypes, sev \in LifecycleSeverities : CreateAlert(type, sev)
    \/ \E d \in Deliverers : DeliverBegin(d)
    \/ \E d \in Deliverers : SendOk(d)
    \/ \E d \in Deliverers : SendFail(d)

SpecLive ==
    /\ Init
    /\ [][NextLive]_vars
    /\ \A d \in Deliverers : WF_vars(DeliverBegin(d))
    /\ \A d \in Deliverers : WF_vars(SendOk(d) \/ SendFail(d))

\* C26: a call of send_alerts_to_frontend makes one attempt after the other
\* on the alerts it drained, in their order: each of its steps ends exactly
\* one attempt, on the alert at the head of its list, and goes on with the
\* rest of the list or returns when there is none; the list holds no alert
\* twice and takes no alert in after the drain, so an alert the call put
\* back into the queue is not attempted by it again.  So the call ends after
\* as many attempts as it drained alerts.
C26_BatchState ==
    \A d \in Awaiting :
        LET batch == deliver[d].alerts_to_send
        IN  /\ batch # <<>>
            /\ Len(batch) <= deliver[d].total_processed
            /\ \A i, j \in 1..Len(batch) : i # j => batch[i] # batch[j]
            /\ \A i \in 2..Len(batch) : ~InQueue(batch[i])
C26_Step ==
    \A d \in Awaiting :
        deliver'[d] # deliver[d]
        => /\ Len(outcomes'[Current(d)]) = Len(outcomes[Current(d)]) + 1
           /\ \A o \in Handles \ {Current(d)} : outcomes'[o] = outcomes[o]
           /\ IF Len(deliver[d].alerts_to_send) > 1
              THEN /\ deliver'[d].pc = "await"
                   /\ deliver'[d].alerts_to_send = Tail(deliver[d].alerts_to_send)
                   /\ deliver'[d].total_processed = deliver[d].total_processed
              ELSE deliver'[d].pc = "idle"
C26_DeliverTerminates ==
    /\ []C26_BatchState
    /\ [][C26_Step]_vars
    /\ \A d \in Deliverers : (deliver[d].pc = "await") ~> (deliver[d].pc = "idle")
\* a call that drained three alerts is at the last of them: the first failed
\* and waits in the queue again, the second was sent
C26_Witness ==
    \E d \in Awaiting : \E a, b \in Handles :
        /\ deliver[d].total_processed = 3
        /\ Len(deliver[d].alerts_to_send) = 1
        /\ InQueue(a) /\ outcomes[a] = <<"fail">>
        /\ InHistory(b) /\ outcomes[b] = <<"ok">>
        /\ deliver[d].sent_count = 1

\* a sequence holds no element twice
NoRepeat(seq) == \A i, j \in 1..Len(seq) : i # j => seq[i] # seq[j]

\* C27: with overlapping send_alerts_to_frontend calls every alert is held
\* by at most one of them and is not in the queue meanwhile, so one attempt
\* at a time is made on it; no alert is delivered twice, and the history
\* holds no alert and no alert id twice.
C27_OneCallPerAlert ==
    /\ \A d, e \in Awaiting : d # e => BatchOf(d) \cap BatchOf(e) = {}
    /\ \A d \in Awaiting :
           /\ NoRepeat(deliver[d].alerts_to_send)
           /\ \A o \in BatchOf(d) : ~InQueue(o)
    /\ NoRepeat(alert_queue)
    /\ \A o \in Handles :
           /\ Count(outcomes[o], "ok") <= 1
           /\ InHistory(o) <=> Count(outcomes[o], "ok") = 1
           /\ (InQueue(o) \/ Batched(o)) => Count(outcomes[o], "ok") = 0
    /\ NoRepeat(sent_alerts)
    /\ NoRepeat([k \in 1..Len(sent_alerts) |-> heap[sent_alerts[k]].alert_id])
\* two calls are suspended at once, each with alerts of its own, after an
\* alert that failed in the first call's batch was drained by the second
C27_Witness ==
    \E d, e \in Awaiting :
        /\ d # e
        /\ \E o \in BatchOf(e) : outcomes[o] = <<"fail">>
        /\ \E o \in BatchOf(d) : outcomes[o] = <<>>
        /\ sent_alerts # <<>>

\* C28: every alert in the queue is Pending with 0 <= retry_count <
\* max_retries, every alert in the history is Sent or Acknowledged, and no
\* alert is in the queue and in the history at once.
C28_QueueAndHistory ==
    /\ \A k \in 1..Len(alert_queue) :
           LET a == heap[alert_queue[k]]
           IN  a.status = PENDING /\ 0 <= a.retry_count /\ a.retry_count < a.max_retries
    /\ \A k \in 1..Len(sent_alerts) :
           heap[sent_alerts[k]].status \in {SENT, ACKNOWLEDGED}
    /\ SeqToSet(alert_queue) \cap SeqToSet(sent_alerts) = {}
\* the queue holds an alert that failed twice, the history a Sent and an
\* Acknowledged alert
C28_Witness ==
    /\ \E k \in 1..Len(alert_queue) : heap[alert_queue[k]].retry_count = 2
    /\ \E k \in 1..Len(sent_alerts) : heap[sent_alerts[k]].status = SENT
    /\ \E k \in 1..Len(sent_alerts) : heap[sent_alerts[k]].status = ACKNOWLEDGED

\* C29: when send_alerts_to_frontend keeps being called and every delivery
\* attempt returns or raises, every alert that was created becomes Sent or
\* Failed; at most max_retries attempts are ever made on an alert, and only
\* a Pending alert is attempted.
C29_AttemptsBounded ==
    \A o \in Handles :
        /\ Attempts(o) <= heap[o].max_retries
        /\ InFlight(o) => heap[o].status = PENDING
C29_EventuallySettled ==
    /\ []C29_AttemptsBounded
    /\ \A o \in 1..MaxAlerts :
           (o \in Handles) ~> (o \in Handles /\ heap[o].status \in {SENT, FAILED})
\* every alert that could be created has been, and all are settled: one was
\* sent at the second attempt, one failed three times
C29_Witness ==
    /\ Len(heap) = MaxAlerts
    /\ \A o \in Handles : heap[o].status \in {SENT, FAILED}
    /\ \E o \in Handles : outcomes[o] = <<"fail", "ok">>
    /\ \E o \in Handles : outcomes[o] = <<"fail", "fail", "fail">>

(* ============================================================= ingest_log *)
MaxLogs == 3            \* ingest_log calls in one behaviour

LogCap == 1000                  \* "Keep only last 1000 logs in memory"

\* A LogEntry object is told from the others by its number: the n-th
\* entry that was made.  log_queue is never read by the agent and holds
\* every entry.
Made == Len(log_queue)
\* the ingest_log calls of the behaviour: returned, or in progress
Ingestions ==
    Len(ingested) + Cardinality({i \in Ingesters : ingester[i].pc = "stored"})

\* the required fields are there: the locked block of ingest_log
\* (put, append, keep the last 1000)
IngestStore(i) ==
    /\ ingester[i].pc = "idle"
    /\ Ingestions < MaxLogs
    /\ log_queue' = Append(log_queue, Made + 1)
    /\ processed_logs' = SliceFrom(Append(processed_logs, Made + 1), 0 - LogCap)
    /\ ingester' = [ingester EXCEPT ![i] = [pc |-> "stored", log_entry |-> Made + 1]]
    /\ UNCHANGED ingested
    /\ UNCHANGED <<alertVars, analysisVars, threadVars>>

\* log_id = len(self.processed_logs) - 1, after the block; return
IngestReturn(i) ==
    /\ ingester[i].pc = "stored"
    /\ ingested' = Append(ingested,
                          [status |-> "success", log_entry |-> ingester[i].log_entry,
                           log_id |-> Len(processed_logs) - 1])
    /\ ingester' = [ingester EXCEPT ![i] = IdleIngester]
    /\ UNCHANGED <<log_queue, processed_logs>>
    /\ UNCHANGED <<alertVars, analysisVars, threadVars>>

\* a required field is missing: an error is returned, nothing is stored
IngestRejected(i) ==
    /\ ingester[i].pc = "idle"
    /\ Ingestions < MaxLogs
    /\ ingested' = Append(ingested, [status |-> "error", log_entry |-> 0, log_id |-> 0 - 1])
    /\ UNCHANGED <<log_queue, processed_logs, ingester>>
    /\ UNCHANGED <<alertVars, analysisVars, threadVars>>

\* the agent after n logs were ingested one after the other, none, or two
\* less, one less or as many as it retains
InitIngest ==
    /\ InitAlerts
    /\ InitAnalysis
    /\ InitThreads
    /\ \E n \in {0, LogCap - 2, LogCap - 1, LogCap} :
           /\ log_queue = [k \in 1..n |-> k]
           /\ processed_logs = [k \in 1..n |-> k]
    /\ ingester = [i \in Ingesters |-> IdleIngester]
    /\ ingested = <<>>

\* ingest_log called by two callers, on threads or one after the other
NextIngest ==
    \/ \E i \in Ingesters : IngestStore(i)
    \/ \E i \in Ingesters : IngestReturn(i)
    \/ \E i \in Ingesters : IngestRejected(i)

SpecIngest == InitIngest /\ [][NextIngest]_vars

\* the calls that returned a log_id
Succeeded == {k \in 1..Len(ingested) : ingested[k].status = "success"}

\* C30: two ingest_log calls that succeeded have returned different
\* log_ids, and when a call returns, its log_id is the position (from 0) of
\* its own log entry in processed_logs.
C30_Distinct ==
    \A j, k \in Succeeded : j # k => ingested[j].log_id # ingested[k].log_id
C30_OwnPosition ==
    \A i \in Ingesters :
        (ingester[i].pc = "stored" /\ ingester'[i].pc = "idle")
        => LET r == ingested'[Len(ingested')]
           IN  /\ r.log_id + 1 \in DOMAIN processed_logs
               /\ processed_logs[r.log_id + 1] = r.log_entry
C30_DistinctLogIds == []C30_Distinct /\ [][C30_OwnPosition]_vars

====
